---- MODULE Spec2Model ----
(***************************************************************************)
(* A model of ledger-utils: the LineItem text grammar (parse and Display), *)
(* the LineItem ordering, the default/override merge (add_overrides) and   *)
(* the TransactionBuilder with its terminal balance() validation.          *)
(*                                                                         *)
(* Text is modelled as Rust stores it: a String is a sequence of UTF-8     *)
(* bytes (integers), so that byte-indexed slicing (str::get), which        *)
(* refuses an index inside a multi-byte character, is modelled by what it  *)
(* does.  i64 and usize are modelled with WordBits bits instead of 64; the *)
(* arithmetic keeps its wrap-around / overflow-check behaviour.            *)
(***************************************************************************)
EXTENDS Integers, Sequences, FiniteSets, TLC

VARIABLES
    line,        \* parse: the text line handed to LineItem::try_from
    p_result,    \* parse: outcome of the parse, NotRun before it
    x_item,      \* format: the LineItem handed to Display
    x_text,      \* format: Some(text) once formatted
    x_back,      \* format: outcome of parsing x_text back
    defaults,    \* merge: the `defaults` vector of add_overrides
    overrides,   \* merge: the `overrides` vector of add_overrides
    m_cmps,      \* merge: the comparisons made by the merge loop, in order
    m_result,    \* merge: outcome of add_overrides
    b_date,      \* builder: TransactionBuilder.date
    b_desc,      \* builder: TransactionBuilder.desc
    b_items,     \* builder: TransactionBuilder.line_items
    b_result,    \* builder: outcome of balance(), NotRun while building
    printed,     \* builder: what Display prints of the built Transaction
    e_self,      \* equality: the left operand of ==
    e_other,     \* equality: the right operand of ==
    e_eq         \* equality: Some(what == returned), None before the comparison

vars == <<line, p_result, x_item, x_text, x_back, defaults, overrides,
          m_cmps, m_result, b_date, b_desc, b_items, b_result, printed,
          e_self, e_other, e_eq>>

-----------------------------------------------------------------------------
(* Bounds of the model *)

\* width, in bits, of the model's i64 and usize (the program's are 64 bits)
WordBits == 24
\* longest text line, in bytes, the parse is run on
MaxLineLen == 6
\* longest account, in bytes, of a LineItem handed to Display
MaxAcctLen == 2
\* longest defaults vector, and longest overrides vector, handed to add_overrides
MaxMerge == 2
\* most line items a TransactionBuilder accumulates
MaxItems == 3
\* longest vector handed to TransactionBuilder::line_items
MaxSetItems == 2

-----------------------------------------------------------------------------
(* Bytes of the text grammar *)

TAB      == 9
SPACE    == 32
DOLLAR   == 36
PLUS     == 43
MINUS    == 45
DOT      == 46
ZERO     == 48
LBRACKET == 91
RBRACKET == 93
\* an ASCII letter of an account name
LETTER_A == 97
LETTER_B == 98
\* the two bytes of a two-byte UTF-8 character (U+00E9)
UTF8_LEAD == 195
UTF8_CONT == 169

Str(b) == <<b>>

\* Option<T>
None == <<>>
Some(v) == <<v>>
IsSome(o) == Len(o) = 1
Unwrap(o) == o[1]

\* Result<T, E>, and the abort of the process by a panic
NotRun == [tag |-> "NotRun", val |-> 0]
Ok(v) == [tag |-> "Ok", val |-> v]
Err(e) == [tag |-> "Err", val |-> e]
Panic == [tag |-> "Panic", val |-> 0]

-----------------------------------------------------------------------------
(* Machine integers *)

I64_MAX == 2 ^ (WordBits - 1) - 1
I64_MIN == -(2 ^ (WordBits - 1))

\* two's-complement wrap of a mathematical integer into the i64 range
WrapI64(n) == ((n - I64_MIN) % (2 ^ WordBits)) + I64_MIN

\* a + b on i64: with overflow checks compiled in (debug profile) an overflow
\* panics, without them (release profile) it wraps
AddI64(a, b, overflow_checks) ==
    IF a + b > I64_MAX \/ a + b < I64_MIN
    THEN IF overflow_checks THEN Panic ELSE Ok(WrapI64(a + b))
    ELSE Ok(a + b)

\* a - b on usize, same build dependence
SubUsize(a, b, overflow_checks) ==
    IF a - b < 0
    THEN IF overflow_checks THEN Panic ELSE Ok((a - b) % (2 ^ WordBits))
    ELSE Ok(a - b)

\* f64 as i64: saturating
SaturateI64(n) == IF n > I64_MAX THEN I64_MAX ELSE IF n < I64_MIN THEN I64_MIN ELSE n

-----------------------------------------------------------------------------
(* str *)

IsWhitespace(b) == b \in {TAB, 10, 11, 12, 13, SPACE}
IsContinuation(b) == b >= 128 /\ b <= 191
IsDigit(b) == b >= ZERO /\ b <= ZERO + 9

\* str::is_char_boundary(index), index counted from 0
IsCharBoundary(s, index) ==
    IF index = 0 THEN TRUE
    ELSE IF index >= Len(s) THEN index = Len(s)
    ELSE ~IsContinuation(s[index + 1])

\* str::get(begin..end): None unless both ends are character boundaries
StrGet(s, begin, end) ==
    IF begin <= end /\ IsCharBoundary(s, begin) /\ IsCharBoundary(s, end)
    THEN Some(SubSeq(s, begin + 1, end))
    ELSE None

\* str::get(begin..)
StrGetFrom(s, begin) ==
    IF IsCharBoundary(s, begin) THEN Some(SubSeq(s, begin + 1, Len(s))) ELSE None

RECURSIVE TrimStart(_)
TrimStart(s) ==
    IF s # <<>> /\ IsWhitespace(Head(s)) THEN TrimStart(Tail(s)) ELSE s

RECURSIVE TrimEnd(_)
TrimEnd(s) ==
    IF s # <<>> /\ IsWhitespace(s[Len(s)]) THEN TrimEnd(SubSeq(s, 1, Len(s) - 1)) ELSE s

\* str::trim
Trim(s) == TrimEnd(TrimStart(s))

\* str::split("  "): the segments between the non-overlapping occurrences of two
\* spaces, found left to right; `start` is where the current segment begins
RECURSIVE SplitFrom(_, _, _)
SplitFrom(s, start, i) ==
    IF i + 1 > Len(s) THEN <<SubSeq(s, start, Len(s))>>
    ELSE IF s[i] = SPACE /\ s[i + 1] = SPACE
         THEN <<SubSeq(s, start, i - 1)>> \o SplitFrom(s, i + 2, i + 2)
         ELSE SplitFrom(s, start, i + 1)

Split(s) == SplitFrom(s, 1, 1)

\* rhs.chars().filter(|c| *c != '$').collect()
StripDollar(s) == SelectSeq(s, LAMBDA c : c # DOLLAR)

AllDigits(s) == \A i \in 1..Len(s) : IsDigit(s[i])

RECURSIVE DigitsVal(_)
DigitsVal(s) ==
    IF s = <<>> THEN 0
    ELSE 10 * DigitsVal(SubSeq(s, 1, Len(s) - 1)) + (s[Len(s)] - ZERO)

HasSign(s) == s # <<>> /\ s[1] \in {PLUS, MINUS}
Unsigned(s) == IF HasSign(s) THEN Tail(s) ELSE s
Negative(s) == s # <<>> /\ s[1] = MINUS

\* str::parse::<i64>(): an optional sign and at least one digit, nothing else;
\* a number outside the i64 range is an error
ParseI64(s) ==
    LET d == Unsigned(s)
        n == IF Negative(s) THEN -DigitsVal(d) ELSE DigitsVal(d)
    IN  IF d = <<>> \/ ~AllDigits(d) THEN Err("ParseIntError")
        ELSE IF n > I64_MAX \/ n < I64_MIN THEN Err("ParseIntError")
        ELSE Ok(n)

\* index of the first '.' of s, Len(s) + 1 when there is none
RECURSIVE DotAt(_, _)
DotAt(s, i) == IF i > Len(s) \/ s[i] = DOT THEN i ELSE DotAt(s, i + 1)

\* round(value * 100.0) for the decimal whose integer digits are ip and fraction
\* digits are fp: f64::round rounds half away from zero
RoundCents(ip, fp) ==
    LET padded == fp \o <<ZERO, ZERO, ZERO>>
    IN  DigitsVal(ip) * 100 + DigitsVal(SubSeq(padded, 1, 2))
            + (IF padded[3] - ZERO >= 5 THEN 1 ELSE 0)

\* str::parse::<f64>() followed by (value * 100.0).round(), as an integer; the
\* decimal forms [+-]digits[.digits] with at least one digit.  (The exponent,
\* "inf" and "nan" forms need letters that the model's alphabet does not have.)
ParseF64Cents(s) ==
    LET d == Unsigned(s)
        k == DotAt(d, 1)
        ip == SubSeq(d, 1, k - 1)
        fp == SubSeq(d, k + 1, Len(d))
        m == RoundCents(ip, fp)
    IN  IF ~AllDigits(ip) \/ ~AllDigits(fp) \/ (ip = <<>> /\ fp = <<>>)
        THEN Err("ParseFloatError")
        ELSE Ok(IF Negative(s) THEN -m ELSE m)

-----------------------------------------------------------------------------
(* LineItem *)

LineItem(account, value, is_real) ==
    [account |-> account, value |-> value, is_real |-> is_real]

\* The part the two TryFrom impls share: the split, the trims, the bracket
\* match and the account.  Ok([account, is_real, rhs]) or the early return.
ParseSides(value, overflow_checks) ==
    LET split == Split(value)
        lhs == Trim(Head(split))
        rest == Tail(split)
    IN  IF rest = <<>> THEN Err("MissingValue")
        ELSE
        LET rhs == Trim(rest[Len(rest)])
            last_at == SubUsize(Len(lhs), 1, overflow_checks)
        IN  IF last_at.tag = "Panic" THEN Panic
            ELSE
            LET first == StrGet(lhs, 0, 1)
                last == StrGetFrom(lhs, last_at.val)
            IN  IF first = Some(Str(LBRACKET)) /\ last = Some(Str(RBRACKET))
                THEN LET inner == StrGet(lhs, 1, last_at.val)
                     IN  IF IsSome(inner)
                         THEN Ok([account |-> Unwrap(inner), is_real |-> FALSE,
                                  rhs |-> StripDollar(rhs)])
                         ELSE Err("MissingAccount")
                ELSE IF last = None \/ first = None
                        \/ first = Some(Str(LBRACKET)) \/ last = Some(Str(RBRACKET))
                THEN Err("MissingIsReal")
                ELSE Ok([account |-> lhs, is_real |-> TRUE, rhs |-> StripDollar(rhs)])

\* impl TryFrom<&str> for LineItem: the amount is a decimal, rounded to cents
TryFromStr(value, overflow_checks) ==
    LET sides == ParseSides(value, overflow_checks)
    IN  IF sides.tag # "Ok" THEN sides
        ELSE LET cents == ParseF64Cents(sides.val.rhs)
             IN  IF cents.tag # "Ok" THEN Err("MissingValue")
                 ELSE Ok(LineItem(sides.val.account, SaturateI64(cents.val),
                                  sides.val.is_real))

\* impl TryFrom<String> for LineItem: the amount is an integer of cents
TryFromString(value, overflow_checks) ==
    LET sides == ParseSides(value, overflow_checks)
    IN  IF sides.tag # "Ok" THEN sides
        ELSE LET cents == ParseI64(sides.val.rhs)
             IN  IF cents.tag # "Ok" THEN Err("MissingValue")
                 ELSE Ok(LineItem(sides.val.account, cents.val, sides.val.is_real))

RECURSIVE IntToDigits(_)
IntToDigits(n) ==
    IF n < 10 THEN <<ZERO + n>> ELSE IntToDigits(n \div 10) \o <<ZERO + (n % 10)>>

\* format!("{:.02}", value as f64 / 100.0)
FormatCents(value) ==
    LET m == IF value < 0 THEN -value ELSE value
    IN  (IF value < 0 THEN <<MINUS>> ELSE <<>>)
            \o IntToDigits(m \div 100) \o <<DOT, ZERO + ((m \div 10) % 10), ZERO + (m % 10)>>

\* impl Display for LineItem
LineItemDisplay(item) ==
    LET full_name == IF item.is_real THEN item.account
                     ELSE <<LBRACKET>> \o item.account \o <<RBRACKET>>
    IN  full_name \o <<SPACE, SPACE, TAB, DOLLAR>> \o FormatCents(item.value)

\* impl PartialEq for LineItem: the account is compared with itself
eq(self, other) ==
    self.is_real = other.is_real /\ self.account = self.account /\ self.value = other.value

\* impl ToOwned for LineItem
ToOwned(item) == LineItem(item.account, item.value, item.is_real)

\* str's ordering: byte by byte, a proper prefix sorts first
RECURSIVE StrCmp(_, _)
StrCmp(s, t) ==
    IF s = <<>> /\ t = <<>> THEN "Equal"
    ELSE IF s = <<>> THEN "Less"
    ELSE IF t = <<>> THEN "Greater"
    ELSE IF Head(s) < Head(t) THEN "Less"
    ELSE IF Head(s) > Head(t) THEN "Greater"
    ELSE StrCmp(Tail(s), Tail(t))

\* partial_cmp as it would be if value broke the ties
partial_cmp_value(self, other) ==
    IF self.is_real /\ ~other.is_real THEN Some("Less")
    ELSE IF ~self.is_real /\ other.is_real THEN Some("Greater")
    ELSE IF self.account = other.account /\ self.value # other.value
    THEN Some(IF self.value < other.value THEN "Less" ELSE "Greater")
    ELSE Some(StrCmp(self.account, other.account))

\* impl PartialOrd for LineItem
partial_cmp(self, other) ==
    IF self.is_real /\ ~other.is_real THEN Some("Less")
    ELSE IF ~self.is_real /\ other.is_real THEN Some("Greater")
    ELSE Some(StrCmp(self.account, other.account))

-----------------------------------------------------------------------------
(* add_overrides *)

\* |a, b| a.partial_cmp(b).unwrap_or(Ordering::Equal)
SortCmp(a, b) ==
    LET ord == partial_cmp(a, b) IN IF IsSome(ord) THEN Unwrap(ord) ELSE "Equal"

\* x placed in a sorted vector behind every element that is not greater
RECURSIVE InsertSorted(_, _)
InsertSorted(sorted, x) ==
    IF sorted = <<>> THEN <<x>>
    ELSE IF SortCmp(x, Head(sorted)) = "Less" THEN <<x>> \o sorted
    ELSE <<Head(sorted)>> \o InsertSorted(Tail(sorted), x)

\* sort_by as it would be if the vector were left as it came
SortByUnsorted(v) == v

\* Vec::sort_by with SortCmp: a stable sort
RECURSIVE SortBy(_)
SortBy(v) ==
    IF v = <<>> THEN <<>>
    ELSE InsertSorted(SortBy(SubSeq(v, 1, Len(v) - 1)), v[Len(v)])

DoesNotBalance(amount) == [kind |-> "DoesNotBalance", amount |-> amount]
BuilderError(kind) == [kind |-> kind, amount |-> 0]

\* the loop of add_overrides over what is left of the two sorted vectors; `lines`
\* is the output so far, `cmps` the comparisons made so far
RECURSIVE MergeLoop(_, _, _, _)
MergeLoop(over, default, lines, cmps) ==
    IF over = <<>> /\ default = <<>> THEN [result |-> Ok(lines), cmps |-> cmps]
    ELSE IF over # <<>> /\ default # <<>>
    THEN LET o == Head(over)
             d == Head(default)
             ord == partial_cmp(o, d)
             made == Append(cmps, [o |-> o, d |-> d, ord |-> ord])
         IN  IF ord = Some("Less")
             THEN MergeLoop(Tail(over), default, Append(lines, ToOwned(o)), made)
             ELSE IF ord = Some("Equal")
             THEN MergeLoop(Tail(over), Tail(default), Append(lines, ToOwned(o)), made)
             ELSE IF ord = Some("Greater")
             THEN MergeLoop(over, Tail(default), Append(lines, ToOwned(d)), made)
             ELSE [result |-> Err(DoesNotBalance(-1)), cmps |-> made]
    ELSE IF over # <<>>
    THEN MergeLoop(Tail(over), default, Append(lines, ToOwned(Head(over))), cmps)
    ELSE MergeLoop(over, Tail(default), Append(lines, ToOwned(Head(default))), cmps)

\* fn add_overrides, on the two vectors as the sorts leave them
add_overrides(sorted_defaults, sorted_overrides) ==
    MergeLoop(sorted_overrides, sorted_defaults, <<>>, <<>>)

-----------------------------------------------------------------------------
(* TransactionBuilder *)

\* Iterator::sum over i64: a left fold of + from 0
RECURSIVE SumI64(_, _, _)
SumI64(values, acc, overflow_checks) ==
    IF values = <<>> THEN Ok(acc)
    ELSE LET next == AddI64(acc, Head(values), overflow_checks)
         IN  IF next.tag = "Panic" THEN Panic
             ELSE SumI64(Tail(values), next.val, overflow_checks)

IsReal(l) == l.is_real
IsVirtual(l) == ~l.is_real

RECURSIVE Values(_)
Values(items) == IF items = <<>> THEN <<>> ELSE <<Head(items).value>> \o Values(Tail(items))

\* TransactionBuilder::current_virt_balance / the virt_balance of balance()
VirtBalance(line_items, overflow_checks) ==
    SumI64(Values(SelectSeq(line_items, IsVirtual)), 0, overflow_checks)

\* TransactionBuilder::current_real_balance / the real_balance of balance()
RealBalance(line_items, overflow_checks) ==
    SumI64(Values(SelectSeq(line_items, IsReal)), 0, overflow_checks)

Transaction(date, desc, line_items) ==
    [date |-> date, desc |-> desc, line_items |-> line_items]

\* TransactionBuilder::balance
balance(date, desc, line_items, overflow_checks) ==
    IF date = None THEN Err(BuilderError("MissingDate"))
    ELSE IF desc = None THEN Err(BuilderError("MissingDesc"))
    ELSE IF Len(line_items) < 2 THEN Err(BuilderError("NotEnoughLineItems"))
    ELSE LET virt_balance == VirtBalance(line_items, overflow_checks)
         IN  IF virt_balance.tag = "Panic" THEN Panic
             ELSE IF virt_balance.val # 0 THEN Err(DoesNotBalance(virt_balance.val))
             ELSE LET real_balance == RealBalance(line_items, overflow_checks)
                  IN  IF real_balance.tag = "Panic" THEN Panic
                      ELSE IF real_balance.val # 0
                      THEN Err(DoesNotBalance(real_balance.val))
                      ELSE Ok(Transaction(Unwrap(date), Unwrap(desc), line_items))

\* push as it would be if the new line went in front
PushFront(lines, l) == <<l>> \o lines

\* Vec::push
Push(lines, l) == Append(lines, l)

\* impl Display for Transaction: the header (date, description) and one line per
\* item, four spaces and the item's text
TransactionDisplay(t) ==
    [header |-> <<t.date, t.desc>>,
     lines |-> [i \in 1..Len(t.line_items) |->
                   <<SPACE, SPACE, SPACE, SPACE>> \o LineItemDisplay(t.line_items[i])]]

-----------------------------------------------------------------------------
(* Inputs *)

\* the characters a text line is typed from: ASCII bytes and one two-byte character
Chars == {Str(LBRACKET), Str(RBRACKET), Str(LETTER_A), Str(SPACE), Str(DOLLAR),
          Str(MINUS), Str(ZERO + 5), Str(DOT), <<UTF8_LEAD, UTF8_CONT>>}

\* the characters of the accounts of the LineItems handed to Display
AcctChars == {Str(LETTER_A), Str(LETTER_B), <<UTF8_LEAD, UTF8_CONT>>}

RECURSIVE TextsUpTo(_, _)
TextsUpTo(chars, n) ==
    IF n = 0 THEN {<<>>}
    ELSE LET shorter == TextsUpTo(chars, n - 1)
         IN  shorter \cup {t \o c : t \in shorter, c \in chars}

\* accounts as the data model has them: not empty, no bracket
Accounts == {t \in TextsUpTo(AcctChars, MaxAcctLen) : t # <<>> /\ Len(t) <= MaxAcctLen}

FormatValues == {-1234, -5, 0, 7, 150}

\* values of the variables of the parts a specification does not run
IdleParse == line = <<>> /\ p_result = NotRun
IdleFormat == x_item = LineItem(<<LETTER_A>>, 0, TRUE) /\ x_text = None /\ x_back = NotRun
IdleMerge == defaults = <<>> /\ overrides = <<>> /\ m_cmps = <<>> /\ m_result = NotRun
IdleEq ==
    /\ e_self = LineItem(<<LETTER_A>>, 0, TRUE)
    /\ e_other = LineItem(<<LETTER_A>>, 0, TRUE)
    /\ e_eq = None
IdleBuilder ==
    b_date = None /\ b_desc = None /\ b_items = <<>> /\ b_result = NotRun /\ printed = None

parseVars == <<line, p_result>>
formatVars == <<x_item, x_text, x_back>>
mergeVars == <<defaults, overrides, m_cmps, m_result>>
builderVars == <<b_date, b_desc, b_items, b_result, printed>>
eqVars == <<e_self, e_other, e_eq>>

-----------------------------------------------------------------------------
(* Parsing a text line *)

InitParse == IdleParse /\ IdleFormat /\ IdleMerge /\ IdleBuilder /\ IdleEq

\* the caller extends the line by one character
TypeChar(c) ==
    /\ p_result = NotRun
    /\ Len(line) + Len(c) <= MaxLineLen
    /\ line' = line \o c
    /\ UNCHANGED <<p_result, formatVars, mergeVars, builderVars, eqVars>>

\* LineItem::try_from(&str), in a build with or without overflow checks
ParseStr(overflow_checks) ==
    /\ p_result = NotRun
    /\ p_result' = [tag |-> "str", overflow_checks |-> overflow_checks,
                    val |-> TryFromStr(line, overflow_checks)]
    /\ UNCHANGED <<line, formatVars, mergeVars, builderVars, eqVars>>

\* LineItem::try_from(String)
ParseString(overflow_checks) ==
    /\ p_result = NotRun
    /\ p_result' = [tag |-> "string", overflow_checks |-> overflow_checks,
                    val |-> TryFromString(line, overflow_checks)]
    /\ UNCHANGED <<line, formatVars, mergeVars, builderVars, eqVars>>

NextParse ==
    \/ \E c \in Chars : TypeChar(c)
    \/ \E oc \in BOOLEAN : ParseStr(oc)
    \/ \E oc \in BOOLEAN : ParseString(oc)

SpecParse == InitParse /\ [][NextParse]_vars

-----------------------------------------------------------------------------
(* Formatting a LineItem and parsing the text back *)

InitFormat ==
    /\ x_item \in {LineItem(a, v, r) : a \in Accounts, v \in FormatValues, r \in BOOLEAN}
    /\ x_text = None
    /\ x_back = NotRun
    /\ IdleParse /\ IdleMerge /\ IdleBuilder /\ IdleEq

\* x.to_string()
Format ==
    /\ x_text = None
    /\ x_text' = Some(LineItemDisplay(x_item))
    /\ UNCHANGED <<x_item, x_back, parseVars, mergeVars, builderVars, eqVars>>

\* LineItem::try_from(text: String)
ReparseString(overflow_checks) ==
    /\ IsSome(x_text)
    /\ x_back = NotRun
    /\ x_back' = [tag |-> "string", overflow_checks |-> overflow_checks,
                  val |-> TryFromString(Unwrap(x_text), overflow_checks)]
    /\ UNCHANGED <<x_item, x_text, parseVars, mergeVars, builderVars, eqVars>>

\* LineItem::try_from(text: &str)
ReparseStr(overflow_checks) ==
    /\ IsSome(x_text)
    /\ x_back = NotRun
    /\ x_back' = [tag |-> "str", overflow_checks |-> overflow_checks,
                  val |-> TryFromStr(Unwrap(x_text), overflow_checks)]
    /\ UNCHANGED <<x_item, x_text, parseVars, mergeVars, builderVars, eqVars>>

NextFormat ==
    \/ Format
    \/ \E oc \in BOOLEAN : ReparseString(oc)
    \/ \E oc \in BOOLEAN : ReparseStr(oc)

SpecFormat == InitFormat /\ [][NextFormat]_vars

-----------------------------------------------------------------------------
(* Merging defaults and overrides *)

RECURSIVE VecsUpTo(_, _)
VecsUpTo(items, n) ==
    IF n = 0 THEN {<<>>}
    ELSE LET shorter == VecsUpTo(items, n - 1)
         IN  shorter \cup {Append(v, i) : v \in shorter, i \in items}

MergeAccounts == {<<LETTER_A>>, <<LETTER_A, LETTER_B>>, <<LETTER_B>>}
\* two values at one account, so that an override and a default of one key can differ
MergeItems ==
    {LineItem(a, 10, r) : a \in MergeAccounts, r \in BOOLEAN}
        \cup {LineItem(<<LETTER_A>>, 20, r) : r \in BOOLEAN}

InitMerge ==
    /\ defaults \in VecsUpTo(MergeItems, MaxMerge)
    /\ overrides \in VecsUpTo(MergeItems, MaxMerge)
    /\ m_cmps = <<>>
    /\ m_result = NotRun
    /\ IdleParse /\ IdleFormat /\ IdleBuilder /\ IdleEq

\* add_overrides(&mut defaults, &mut overrides): both vectors are sorted in place,
\* then merged
AddOverrides ==
    /\ m_result = NotRun
    /\ LET sorted_overrides == SortBy(overrides)
           sorted_defaults == SortBy(defaults)
           merged == add_overrides(sorted_defaults, sorted_overrides)
       IN  /\ overrides' = sorted_overrides
           /\ defaults' = sorted_defaults
           /\ m_result' = merged.result
           /\ m_cmps' = merged.cmps
    /\ UNCHANGED <<parseVars, formatVars, builderVars, eqVars>>

NextMerge == AddOverrides

SpecMerge == InitMerge /\ [][NextMerge]_vars

-----------------------------------------------------------------------------
(* Building a Transaction *)

Dates == {20240101, 20240102}
Descs == {<<LETTER_A>>, <<LETTER_B>>}
BuilderItems ==
    {LineItem(<<LETTER_A>>, I64_MIN, r) : r \in BOOLEAN}
        \cup {LineItem(<<LETTER_A>>, 100, r) : r \in BOOLEAN}
        \cup {LineItem(<<LETTER_B>>, -100, r) : r \in BOOLEAN}
\* the vectors handed to TransactionBuilder::line_items
LineItemVecs == VecsUpTo(BuilderItems, MaxSetItems)

\* TransactionBuilder::new()
InitBuilder == IdleBuilder /\ IdleParse /\ IdleFormat /\ IdleMerge /\ IdleEq

Building == b_result = NotRun

\* TransactionBuilder::date
date(d) ==
    /\ Building
    /\ b_date' = Some(d)
    /\ UNCHANGED <<b_desc, b_items, b_result, printed, parseVars, formatVars, mergeVars, eqVars>>

\* TransactionBuilder::desc
desc(s) ==
    /\ Building
    /\ b_desc' = Some(s)
    /\ UNCHANGED <<b_date, b_items, b_result, printed, parseVars, formatVars, mergeVars, eqVars>>

\* TransactionBuilder::line_items
line_items(v) ==
    /\ Building
    /\ b_items' = v
    /\ UNCHANGED <<b_date, b_desc, b_result, printed, parseVars, formatVars, mergeVars, eqVars>>

\* TransactionBuilder::add_line
add_line(l) ==
    /\ Building
    /\ Len(b_items) < MaxItems
    /\ b_items' = Push(b_items, l)
    /\ UNCHANGED <<b_date, b_desc, b_result, printed, parseVars, formatVars, mergeVars, eqVars>>

\* TransactionBuilder::balance, which consumes the builder
Balance(overflow_checks) ==
    /\ Building
    /\ b_result' = balance(b_date, b_desc, b_items, overflow_checks)
    /\ UNCHANGED <<b_date, b_desc, b_items, printed, parseVars, formatVars, mergeVars, eqVars>>

\* println!("{}", transaction)
PrintTransaction ==
    /\ b_result.tag = "Ok"
    /\ printed = None
    /\ printed' = Some(TransactionDisplay(b_result.val))
    /\ UNCHANGED <<b_date, b_desc, b_items, b_result, parseVars, formatVars, mergeVars, eqVars>>

NextBuilder ==
    \/ \E d \in Dates : date(d)
    \/ \E s \in Descs : desc(s)
    \/ \E v \in LineItemVecs : line_items(v)
    \/ \E l \in BuilderItems : add_line(l)
    \/ \E oc \in BOOLEAN : Balance(oc)
    \/ PrintTransaction

SpecBuilder == InitBuilder /\ [][NextBuilder]_vars

-----------------------------------------------------------------------------
(* Comparing two LineItems for equality *)

EqItems == {LineItem(a, v, r) : a \in MergeAccounts, v \in {10, 20}, r \in BOOLEAN}

InitEq ==
    /\ e_self \in EqItems
    /\ e_other \in EqItems
    /\ e_eq = None
    /\ IdleParse /\ IdleFormat /\ IdleMerge /\ IdleBuilder

\* self == other
Eq ==
    /\ e_eq = None
    /\ e_eq' = Some(eq(e_self, e_other))
    /\ UNCHANGED <<e_self, e_other, parseVars, formatVars, mergeVars, builderVars>>

NextEq == Eq

SpecEq == InitEq /\ [][NextEq]_vars

\* the five parts side by side, each from its own initial state
Init == InitParse \/ InitFormat \/ InitMerge \/ InitBuilder \/ InitEq
Next == NextParse \/ NextFormat \/ NextMerge \/ NextBuilder \/ NextEq
Spec == Init /\ [][Next]_vars

-----------------------------------------------------------------------------
(* Vocabulary of the properties *)

SameKey(a, b) == a.is_real = b.is_real /\ a.account = b.account
Count(v, x) == Cardinality({i \in 1..Len(v) : v[i] = x})
Range(v) == {v[i] : i \in 1..Len(v)}
KeyIn(v, x) == \E i \in 1..Len(v) : SameKey(v[i], x)

\* s sorts before t in the lexicographic order of their bytes: they agree on the
\* first k bytes, and there s ends or has the smaller byte
LexLess(s, t) ==
    \E k \in 0..Len(s) :
        /\ k <= Len(t)
        /\ \A i \in 1..k : s[i] = t[i]
        /\ \/ k = Len(s) /\ k < Len(t)
           \/ k < Len(s) /\ k < Len(t) /\ s[k + 1] < t[k + 1]

LexOrdering(s, t) ==
    IF s = t THEN "Equal" ELSE IF LexLess(s, t) THEN "Less" ELSE "Greater"

\* the ordering the spec gives: real before virtual, then by account
SpecOrdering(a, b) ==
    IF a.is_real /\ ~b.is_real THEN "Less"
    ELSE IF ~a.is_real /\ b.is_real THEN "Greater"
    ELSE LexOrdering(a.account, b.account)

\* exact (unbounded) sum of the values of the items of v that satisfy keep
RECURSIVE ExactSum(_, _)
ExactSum(v, real) ==
    IF v = <<>> THEN 0
    ELSE (IF Head(v).is_real = real THEN Head(v).value ELSE 0) + ExactSum(Tail(v), real)

Merged == m_result.tag = "Ok"

-----------------------------------------------------------------------------
(* Properties of the merge, under SpecMerge *)

\* C2: when an override o and a default d share a merge key, the merged result
\* contains o and does not contain d (an item equal to d is in the result only
\* if it is one of the overrides).
C2_OverrideReplacesDefault ==
    Merged =>
        \A o \in Range(overrides), d \in Range(defaults) :
            SameKey(o, d) =>
                /\ o \in Range(m_result.val)
                /\ d \in Range(m_result.val) => d \in Range(overrides)

\* C4: every item whose merge key occurs in only one of the two inputs is in the
\* output as often as in that input, unchanged, and the output is sorted: real
\* items first, and by account within the real and within the virtual items.
C4_PassThroughSorted ==
    /\ m_result.tag \in {"NotRun", "Ok"}
    /\ Merged =>
        /\ \A x \in Range(defaults) :
               ~KeyIn(overrides, x) => Count(m_result.val, x) = Count(defaults, x)
        /\ \A x \in Range(overrides) :
               ~KeyIn(defaults, x) => Count(m_result.val, x) = Count(overrides, x)
        /\ \A i, j \in 1..Len(m_result.val) :
               i < j =>
                   LET a == m_result.val[i]
                       b == m_result.val[j]
                   IN  /\ a.is_real \/ ~b.is_real
                       /\ a.is_real = b.is_real =>
                              a.account = b.account \/ LexLess(a.account, b.account)

\* a merge in which a real and a virtual key pass through from the defaults and a
\* key passes through from the overrides, behind a collision
C4_Witness ==
    /\ Merged
    /\ Len(m_result.val) >= 3
    /\ \E x \in Range(defaults) : ~KeyIn(overrides, x) /\ x.is_real
    /\ \E x \in Range(defaults) : ~KeyIn(overrides, x) /\ ~x.is_real
    /\ \E x \in Range(overrides) : ~KeyIn(defaults, x)
    /\ \E i \in 1..Len(m_cmps) : m_cmps[i].ord = Some("Greater")

\* C8: every comparison the merge makes is defined and is the spec's ordering of
\* the two items, which does not read value; add_overrides never returns its
\* DoesNotBalance(-1).
C8_OrderingTotal ==
    /\ \A i \in 1..Len(m_cmps) :
           m_cmps[i].ord = Some(SpecOrdering(m_cmps[i].o, m_cmps[i].d))
    /\ m_result.tag # "Err"

\* a merge that compared two items of one key and different values, and two items
\* that differ in reality
C8_Witness ==
    /\ Merged
    /\ \E i \in 1..Len(m_cmps) :
           /\ SameKey(m_cmps[i].o, m_cmps[i].d)
           /\ m_cmps[i].o.value # m_cmps[i].d.value
           /\ m_cmps[i].ord = Some("Equal")
    /\ \E i \in 1..Len(m_cmps) :
           /\ ~m_cmps[i].o.is_real /\ m_cmps[i].d.is_real
           /\ LexLess(m_cmps[i].o.account, m_cmps[i].d.account)
           /\ m_cmps[i].ord = Some("Greater")

-----------------------------------------------------------------------------
(* Properties of the builder, under SpecBuilder *)

\* C1: a Transaction that balance() returns has at least 2 line items, and the
\* values of its real items sum to exactly 0 and so do those of its virtual items.
C1_BalancedTransaction ==
    b_result.tag = "Ok" =>
        /\ Len(b_result.val.line_items) >= 2
        /\ ExactSum(b_result.val.line_items, TRUE) = 0
        /\ ExactSum(b_result.val.line_items, FALSE) = 0

\* the error of the first check of the spec's list that fails, None if none does
FirstFailingCheck(d, s, items) ==
    IF d = None THEN Some(BuilderError("MissingDate"))
    ELSE IF s = None THEN Some(BuilderError("MissingDesc"))
    ELSE IF Len(items) < 2 THEN Some(BuilderError("NotEnoughLineItems"))
    ELSE IF ExactSum(items, FALSE) # 0 THEN Some(DoesNotBalance(ExactSum(items, FALSE)))
    ELSE IF ExactSum(items, TRUE) # 0 THEN Some(DoesNotBalance(ExactSum(items, TRUE)))
    ELSE None

\* C5: balance() checks date, description, item count >= 2, virtual sum = 0 and
\* real sum = 0 in this order and returns exactly the error of the first check
\* that fails, DoesNotBalance carrying the sum that is not 0.
C5_FirstFailingCheck ==
    LET failing == FirstFailingCheck(b_date, b_desc, b_items)
    IN  (b_result.tag # "NotRun" /\ IsSome(failing)) => b_result = Err(Unwrap(failing))

\* what a step of one call may do to the builder
C9_Step ==
    /\ \A d \in Dates :
           date(d) => b_date' = Some(d) /\ b_desc' = b_desc /\ b_items' = b_items
    /\ \A s \in Descs :
           desc(s) => b_desc' = Some(s) /\ b_date' = b_date /\ b_items' = b_items
    /\ \A v \in {b_items'} :
           line_items(v) => b_items' = v /\ b_date' = b_date /\ b_desc' = b_desc
    /\ \A l \in BuilderItems :
           add_line(l) =>
               /\ Len(b_items') = Len(b_items) + 1
               /\ b_items'[Len(b_items')] = l
               /\ \A i \in 1..Len(b_items) : b_items'[i] = b_items[i]
               /\ b_date' = b_date /\ b_desc' = b_desc
    /\ (Building /\ b_result' # NotRun) => (b_date' = b_date /\ b_desc' = b_desc /\ b_items' = b_items)
    /\ ((\E d \in Dates : date(d)) \/ (\E s \in Descs : desc(s))
            \/ line_items(b_items')
            \/ (\E l \in BuilderItems : add_line(l)))
         => b_result' = NotRun

\* what a successful balance() returns and what is printed of it
C9_Built ==
    /\ b_result.tag = "Ok" =>
           /\ b_result.val.date = Unwrap(b_date)
           /\ b_result.val.desc = Unwrap(b_desc)
           /\ b_result.val.line_items = b_items
    /\ IsSome(printed) =>
           /\ Unwrap(printed).header = <<Unwrap(b_date), Unwrap(b_desc)>>
           /\ Len(Unwrap(printed).lines) = Len(b_items)
           /\ \A i \in 1..Len(b_items) :
                  Unwrap(printed).lines[i]
                      = <<SPACE, SPACE, SPACE, SPACE>> \o LineItemDisplay(b_items[i])

\* C9: date, desc, line_items and add_line never fail and change only their own
\* field (date and desc take the new value, line_items replaces the list,
\* add_line appends one item at the end); a successful balance() returns the
\* builder's date, desc and item sequence as they are, and the Transaction prints
\* its lines in that order.
C9_BuilderFrame == [][C9_Step]_vars /\ []C9_Built

\* a printed Transaction whose items are not in sorted order
C9_Witness ==
    /\ IsSome(printed)
    /\ Len(b_items) >= 2
    /\ b_items[1].account = <<LETTER_B>>
    /\ b_items[2].account = <<LETTER_A>>
    /\ ~b_items[1].is_real

-----------------------------------------------------------------------------
(* Properties of the round trip, under SpecFormat *)

\* C3: the text Display gives for a LineItem x, parsed back in the cents-integer
\* mode (TryFrom<String>), is a LineItem with x's account, value and is_real.
C3_RoundTrip ==
    x_back.tag = "string" =>
        /\ x_back.val.tag = "Ok"
        /\ x_back.val.val.account = x_item.account
        /\ x_back.val.val.value = x_item.value
        /\ x_back.val.val.is_real = x_item.is_real

-----------------------------------------------------------------------------
(* Properties of the parse, under SpecParse *)

Parsed == p_result.tag \in {"str", "string"}

\* the trimmed left-hand side of a text line and its amount field
LeftSide(text) == Trim(Head(Split(text)))
HasAmount(text) == Len(Split(text)) >= 2
AmountText(text) == StripDollar(Trim(Split(text)[Len(Split(text))]))
AmountValid(text, mode) ==
    /\ HasAmount(text)
    /\ IF mode = "str" THEN ParseF64Cents(AmountText(text)).tag = "Ok"
       ELSE ParseI64(AmountText(text)).tag = "Ok"

StartsWith(s, b) == s # <<>> /\ s[1] = b
EndsWith(s, b) == s # <<>> /\ s[Len(s)] = b

\* the bracket rule of the spec, for the left-hand side L and the outcome res
BracketRule(L, res) ==
    IF StartsWith(L, LBRACKET) /\ EndsWith(L, RBRACKET)
    THEN /\ res.tag = "Ok"
         /\ ~res.val.is_real
         /\ res.val.account = SubSeq(L, 2, Len(L) - 1)
    ELSE IF StartsWith(L, LBRACKET) \/ EndsWith(L, RBRACKET)
    THEN res = Err("MissingIsReal")
    ELSE /\ res.tag = "Ok"
         /\ res.val.is_real
         /\ res.val.account = L

\* C6: when the amount field of the line is valid, the outcome follows the
\* bracket rule: both brackets make a virtual item whose account is the
\* left-hand side without them, one bracket alone is MissingIsReal, no bracket
\* makes a real item whose account is the left-hand side verbatim.
C6_BracketRule ==
    (Parsed /\ AmountValid(line, p_result.tag)) => BracketRule(LeftSide(line), p_result.val)

\* C6 on the lines whose left-hand side is not empty, where the subtraction of
\* lhs.len() - 1 cannot overflow
C6_BracketRuleNonEmpty ==
    (Parsed /\ AmountValid(line, p_result.tag) /\ LeftSide(line) # <<>>)
        => BracketRule(LeftSide(line), p_result.val)

\* C7: the account of a parsed LineItem is not empty and neither starts with '['
\* nor ends with ']'.
C7_StoredAccount ==
    (Parsed /\ p_result.val.tag = "Ok") =>
        /\ p_result.val.val.account # <<>>
        /\ ~StartsWith(p_result.val.val.account, LBRACKET)
        /\ ~EndsWith(p_result.val.val.account, RBRACKET)

\* C10: the parse of any text line returns a LineItem or one of MissingAccount,
\* MissingValue, MissingIsReal; it never aborts.
C10_ParseTotal ==
    Parsed =>
        \/ p_result.val.tag = "Ok"
        \/ /\ p_result.val.tag = "Err"
           /\ p_result.val.val \in {"MissingAccount", "MissingValue", "MissingIsReal"}

-----------------------------------------------------------------------------
(* Properties of the equality, under SpecEq *)

\* C11: a == b holds exactly when a and b have the same is_real, the same account
\* and the same value; two items with different accounts are never equal.
C11_Equality ==
    IsSome(e_eq) =>
        (Unwrap(e_eq) <=> (/\ e_self.is_real = e_other.is_real
                           /\ e_self.account = e_other.account
                           /\ e_self.value = e_other.value))

====
